---- MODULE Spec2Model ----
(***************************************************************************)
(* Call4Me: scheduler (src/src/services/scheduler.ts), call executor       *)
(* (src/src/services/twilio.ts), the scheduled-call routes                 *)
(* (src/unnamed/part_003) and the provider's webhooks                      *)
(* (src/unnamed/part_006), as a state machine.                             *)
(*                                                                         *)
(* A task is one running async function chain (an Express handler, a timer *)
(* or cron callback, initScheduler).  A step of a task is the code between *)
(* two awaits: it resumes after the awaited store/provider operation, runs *)
(* synchronously through every nested call and ends with the effect of the *)
(* next awaited operation.  pc names the await the task is suspended at.   *)
(***************************************************************************)
EXTENDS Integers, Sequences, FiniteSets, TLC

\* ---- bounds of the model
NumCalls == 1
MaxTime == 2
MaxLogs == 2
MaxFirings == 2
NumJobs == 3
NumStored == 2
MaxDelay == 2

Ids == 1..NumCalls
JobIds == 1..NumJobs
StoredIds == 1..NumStored
Times == 0..MaxTime

\* a nullable value is <<>> (null) or <<v>>
Null == <<>>
Some(v) == <<v>>

VARIABLES
  scheduledCall,   \* prisma.scheduledCall: id -> row (DOMAIN = existing rows)
  scheduledJobs,   \* scheduler.ts scheduledJobs Map: id -> handle number
  handles,         \* the timeouts and cron tasks alive in the process: handle number -> handle
  callLog,         \* prisma.callLog: sequence of rows (index = CallLog id)
  provider,        \* call-creation requests the provider received: the CallLog id in
                   \* each request's TwiML URL (index = the CallSid it assigns on success)
  tasks,           \* async function chains in flight
  now,             \* the clock
  config,          \* config.ts configData
  nextId,          \* next ScheduledCall id the store hands out
  crashed,         \* the process died of an unhandled rejection / process.exit(1)
  firings          \* history: id -> how often executeScheduledCall ran for it as a one-shot call

vars == <<scheduledCall, scheduledJobs, handles, callLog, provider, tasks, now, config, nextId, crashed, firings>>

\* ---- configuration (config.ts) and the base-URL precondition (twilio.ts)

\* a URL is a sequence of tokens; "" and null are both falsy in JavaScript
TruthyUrl(u) == u # Null /\ u[1] # <<>>
TruthyStr(s) == s # Null /\ s[1] # ""

\* String.prototype.toLowerCase, token by token
LowerToken(tok) ==
  CASE tok = "LOCALHOST" -> "localhost"
    [] tok = "LocalHost" -> "localhost"
    [] tok = "Call.Example.COM" -> "call.example.com"
    [] OTHER -> tok

toLowerCase(url) == [i \in 1..Len(url) |-> LowerToken(url[i])]

\* String.prototype.includes on a tokenised URL
includes(url, needle) == \E i \in 1..Len(url) : url[i] = needle

validateBaseUrlNoLower(cfg) ==
  IF ~TruthyUrl(cfg.appBaseUrl)
  THEN [valid |-> FALSE, error |-> "Base URL not configured"]
  ELSE LET url == cfg.appBaseUrl[1]
       IN IF includes(url, "localhost") \/ includes(url, "127.0.0.1") \/ includes(url, "0.0.0.0")
          THEN [valid |-> FALSE, error |-> "Base URL is set to a localhost address"]
          ELSE [valid |-> TRUE, error |-> ""]

validateBaseUrl(cfg) ==
  IF ~TruthyUrl(cfg.appBaseUrl)
  THEN [valid |-> FALSE, error |-> "Base URL not configured"]
  ELSE LET url == toLowerCase(cfg.appBaseUrl[1])
       IN IF includes(url, "localhost") \/ includes(url, "127.0.0.1") \/ includes(url, "0.0.0.0")
          THEN [valid |-> FALSE, error |-> "Base URL is set to a localhost address"]
          ELSE [valid |-> TRUE, error |-> ""]

PublicUrl == Some(<<"https://", "call.example.com">>)

BaseUrls ==
  { Null, Some(<<>>), PublicUrl,
    Some(<<"https://", "Call.Example.COM">>),
    Some(<<"http://", "localhost", ":3000">>),
    Some(<<"http://", "LOCALHOST", ":3000">>),
    Some(<<"http://", "127.0.0.1", ":3000">>),
    Some(<<"http://", "0.0.0.0">>) }

Credentials == { Null, Some(""), Some("secret") }

GoodConfig ==
  [ appBaseUrl |-> PublicUrl, twilioAccountSid |-> Some("secret"),
    twilioAuthToken |-> Some("secret"), twilioPhoneNumber |-> Some("secret") ]

\* ---- node-cron: the patterns cron.schedule accepts (it throws on the others)
ValidCron(pattern) == pattern \in {"0 9 * * *"}

Patterns == { Null, Some("0 9 * * *"), Some("every day") }

\* (recurrenceEnabled, recurrencePattern) of a request body.  The pattern is
\* read only where recurrenceEnabled holds, so a one-shot body carries none.
Recurrences ==
  {<<FALSE, Null>>} \cup {<<TRUE, p>> : p \in Patterns}

\* recurrenceEnabled && recurrencePattern
IsRecurring(call) == call.recurrenceEnabled /\ TruthyStr(call.recurrencePattern)

\* scheduler.ts getNextCronDate: new Date() for a pattern cron accepts, else null
getNextCronDate(pattern) == IF ValidCron(pattern) THEN Some(now) ELSE Null

\* ---- the world a step reads and writes, and a step's result
World ==
  [ sc |-> scheduledCall, jobs |-> scheduledJobs, hs |-> handles, logs |-> callLog,
    prov |-> provider, crashed |-> crashed, fired |-> firings ]

Ret(w, t) == [w |-> w, t |-> t]
SetPc(t, pc) == [t EXCEPT !.pc = pc]
Done(w, t) == Ret(w, SetPc(t, "done"))

\* the data a closure or a route holds about a ScheduledCall
CallData(id, row, parsed) ==
  [ id |-> id, recurrenceEnabled |-> row.recurrenceEnabled,
    recurrencePattern |-> row.recurrencePattern, scheduledAt |-> row.scheduledAt,
    recordingId |-> row.recordingId, optsParsed |-> parsed,
    machineDetection |-> row.machineDetection,
    machineDetectionTimeout |-> row.machineDetectionTimeout,
    twilioOptions |-> row.twilioOptions ]

NoCall ==
  [ id |-> 0, recurrenceEnabled |-> FALSE, recurrencePattern |-> Null, scheduledAt |-> 0,
    recordingId |-> "rec-a", optsParsed |-> FALSE,
    machineDetection |-> "DetectMessageEnd", machineDetectionTimeout |-> "30",
    twilioOptions |-> <<>> ]

NewTask(op, call) ==
  [ op |-> op, pc |-> "start", call |-> call, ctx |-> "route", via |-> "none",
    log |-> 0, sid |-> 0, resp |-> "none", retryOf |-> Null,
    trig |-> FALSE, status |-> "none", todo |-> <<>>,
    \* a webhook's request (CallSid, CallStatus, CallDuration, AnsweredBy), what
    \* it did (a metric incremented) and its response (status code, document)
    callSid |-> 0, token |-> <<>>, duration |-> Null, answeredBy |-> Null,
    inc |-> FALSE, code |-> 0, doc |-> <<>>,
    \* what the TwiML route read with the CallLog: the recording's id and the
    \* ScheduledCall's postBeepDelay
    audio |-> "", delay |-> 0,
    \* initScheduler's pendingCalls: what its findMany returned
    pendingCalls |-> <<>>,
    \* triggerCall's callOptions, once built for calls.create
    opts |-> <<>> ]

\* prisma.scheduledCall.update: the row must exist (it throws otherwise)
HasRow(w, id) == id \in DOMAIN w.sc

\* ---- twilio.ts triggerCall: the options of calls.create (lines 89-118)

\* the detection modes of the schema (part_003 line 19)
MachineDetections == {"Enable", "DetectMessageEnd", "Disabled"}

\* the members a twilioOptions text may hold, as <<key, value>>
OptionMembers ==
  << <<"asyncAmd", "true">>,
     <<"asyncAmdStatusCallback", <<"https://", "other.example", "/amd">> >>,
     <<"asyncAmdStatusCallbackMethod", "GET">>,
     <<"url", <<"https://", "other.example", "/twiml">> >>,
     <<"machineDetection", "Enable">>,
     <<"timeout", "20">> >>

OptionKeys == {OptionMembers[i][1] : i \in 1..Len(OptionMembers)}

\* the JSON text of an object: its members in the order they are written
OptionText(keys) == SelectSeq(OptionMembers, LAMBDA m : m[1] \in keys)

TwilioOptionTexts == {OptionText(keys) : keys \in SUBSET OptionKeys}

\* Object.assign(target, source): source's members are set on target
ObjectAssign(target, source) ==
  [k \in DOMAIN target \cup DOMAIN source |->
     IF k \in DOMAIN source THEN source[k] ELSE target[k]]

\* delete obj[key]
Delete(obj, key) == [k \in DOMAIN obj \ {key} |-> obj[k]]

\* JSON.parse of an object's text: member after member, a later one wins
RECURSIVE JSONparse(_)
JSONparse(text) ==
  IF text = <<>>
  THEN <<>>
  ELSE LET m == text[Len(text)]
       IN ObjectAssign(JSONparse(SubSeq(text, 1, Len(text) - 1)), m[1] :> m[2])

\* line 89
twimlUrl(cfg, logId) == cfg.appBaseUrl[1] \o <<"/api/twilio/twiml/", ToString(logId)>>

\* lines 93-108: the options before the ScheduledCall's twilioOptions are added
defaultOptions(cfg, call, logId) ==
  LET base == [ to |-> "+15550100", from |-> cfg.twilioPhoneNumber[1],
                url |-> twimlUrl(cfg, logId),
                statusCallback |-> cfg.appBaseUrl[1] \o <<"/api/twilio/status">>,
                statusCallbackMethod |-> "POST" ]
  IN IF call.machineDetection # "Disabled"
     THEN ObjectAssign(base, [ machineDetection |-> call.machineDetection,
                               machineDetectionTimeout |-> call.machineDetectionTimeout ])
     ELSE base

\* callOptions without the three deletes of lines 116-118
callOptionsKeepsAsync(cfg, call, logId) ==
  ObjectAssign(defaultOptions(cfg, call, logId), JSONparse(call.twilioOptions))

\* lines 93-118: what triggerCall passes to calls.create
callOptions(cfg, call, logId) ==
  LET merged == ObjectAssign(defaultOptions(cfg, call, logId), JSONparse(call.twilioOptions))
  IN Delete(Delete(Delete(merged, "asyncAmd"), "asyncAmdStatusCallback"),
            "asyncAmdStatusCallbackMethod")

\* ---- how an exception leaves a task

\* a route's catch block answers 500; initScheduler's rejection reaches
\* server.ts start() and process.exit(1); a timer or cron callback's
\* rejection is unhandled
Propagate(w, t) ==
  IF t.op \in {"timer", "cron", "init"}
  THEN Done([w EXCEPT !.crashed = TRUE], t)
  ELSE Done(w, t)

\* scheduler.ts executeScheduledCall, catch block (lines 116-124)
ExecCatch(w, t) ==
  IF HasRow(w, t.call.id)
  THEN Ret([w EXCEPT !.sc[t.call.id].status = "failed"], SetPc(t, "e_failed"))
  ELSE Propagate(w, t)

\* triggerCall throws to whoever awaited it
Raise(w, t) == IF t.ctx = "exec" THEN ExecCatch(w, t) ELSE Propagate(w, t)

\* ---- twilio.ts triggerCall

\* catch block (lines 140-155), up to the awaited callLog.update
TrigCatch(w, t, msg) ==
  Ret([w EXCEPT !.logs[t.log].status = "failed",
                !.logs[t.log].errorMessage = Some(msg),
                !.logs[t.log].endedAt = Some(now)],
      SetPc(t, "t_failed"))

\* a CallLog row born failed
NewCallLogFailed(t) ==
  [ scheduledCallId |-> t.call.id, recordingId |-> t.call.recordingId, status |-> "failed",
    twilioCallSid |-> Null, errorMessage |-> Null, answeredAt |-> Null, endedAt |-> Null,
    duration |-> Null,
    amdResult |-> Null, retryOf |-> t.retryOf ]

\* lines 71-80: the data of callLog.create
NewCallLog(t) ==
  [ scheduledCallId |-> t.call.id, recordingId |-> t.call.recordingId, status |-> "initiated",
    twilioCallSid |-> Null, errorMessage |-> Null, answeredAt |-> Null, endedAt |-> Null,
    duration |-> Null,
    amdResult |-> Null, retryOf |-> t.retryOf ]

\* lines 64-80: the base-URL check, then callLog.create
TrigStart(w, t) ==
  IF ~validateBaseUrl(config).valid
  THEN Raise(w, t)
  ELSE Ret([w EXCEPT !.logs = Append(w.logs, NewCallLog(t))],
           [t EXCEPT !.pc = "t_created", !.log = Len(w.logs) + 1])

\* the try block without the credentials check of getTwilioClient
TrigTryNoCredentials(w, t, resp) ==
  IF ~TruthyStr(config.twilioPhoneNumber)
  THEN TrigCatch(w, t, "Twilio phone number not configured")
  ELSE IF t.call.optsParsed
  THEN TrigCatch(w, t, "Unexpected token o in JSON")
  ELSE Ret([w EXCEPT !.prov = Append(w.prov, t.log)],
           [t EXCEPT !.pc = "t_invoked", !.resp = resp, !.sid = Len(w.prov) + 1,
                     !.opts = callOptions(config, t.call, t.log)])

\* lines 82-126: the try block up to the awaited calls.create; resp is the
\* provider's answer to the request
TrigTry(w, t, resp) ==
  IF ~TruthyStr(config.twilioPhoneNumber)
  THEN TrigCatch(w, t, "Twilio phone number not configured")
  ELSE IF t.call.optsParsed
  THEN TrigCatch(w, t, "Unexpected token o in JSON")
  ELSE IF ~(TruthyStr(config.twilioAccountSid) /\ TruthyStr(config.twilioAuthToken))
  THEN TrigCatch(w, t, "Twilio credentials not configured")
  ELSE Ret([w EXCEPT !.prov = Append(w.prov, t.log)],
           [t EXCEPT !.pc = "t_invoked", !.resp = resp, !.sid = Len(w.prov) + 1,
                     !.opts = callOptions(config, t.call, t.log)])

\* a triggerCall that stores the identifier before it looks at the answer
TrigAnsweredStoresSid(w, t) ==
  LET w1 == [w EXCEPT !.logs[t.log].twilioCallSid = Some(t.sid)]
  IN IF t.resp = "ok"
     THEN Ret(w1, SetPc(t, "t_sid"))
     ELSE TrigCatch(w1, t, "provider rejected the call")

\* lines 126-132 and 140-149: the provider answered
TrigAnswered(w, t) ==
  IF t.resp = "ok"
  THEN Ret([w EXCEPT !.logs[t.log].twilioCallSid = Some(t.sid)], SetPc(t, "t_sid"))
  ELSE TrigCatch(w, t, "provider rejected the call")

\* ---- scheduler.ts executeScheduledCall

\* lines 76-84
ExecStart(w, t) ==
  LET t1 == [t EXCEPT !.ctx = "exec"]
      w1 == IF t.call.recurrenceEnabled THEN w ELSE [w EXCEPT !.fired[t.call.id] = @ + 1]
  IN IF HasRow(w1, t1.call.id)
     THEN Ret([w1 EXCEPT !.sc[t1.call.id].status = "in_progress"], SetPc(t1, "e_started"))
     ELSE ExecCatch(w1, t1)

\* lines 89-109
ExecAfterTrigger(w, t) ==
  IF ~HasRow(w, t.call.id)
  THEN ExecCatch(w, t)
  ELSE IF IsRecurring(t.call)
  THEN Ret([w EXCEPT !.sc[t.call.id].status = "pending",
                     !.sc[t.call.id].nextRunAt = getNextCronDate(t.call.recurrencePattern[1])],
           SetPc(t, "e_written"))
  ELSE Ret([w EXCEPT !.sc[t.call.id].status = "completed",
                     !.sc[t.call.id].nextRunAt = Null],
           SetPc(t, "e_written"))

\* triggerCall returned to whoever awaited it: executeScheduledCall, the
\* create route (part_003 lines 131-137), the trigger route (lines 310-328)
\* or the retry route (line 472)
AfterTrigger(w, t) ==
  CASE t.ctx = "exec" -> ExecAfterTrigger(w, t)
    [] t.ctx = "route" /\ t.op = "create" ->
         IF HasRow(w, t.call.id) THEN Ret(w, SetPc(t, "c_lastrun")) ELSE Propagate(w, t)
    [] t.ctx = "route" /\ t.op = "trigger" ->
         IF ~HasRow(w, t.call.id)
         THEN Propagate(w, t)
         ELSE IF ~t.call.recurrenceEnabled
         THEN Ret([w EXCEPT !.sc[t.call.id].status = "completed"], SetPc(t, "tr_updated"))
         ELSE Ret(w, SetPc(t, "tr_updated"))
    [] OTHER -> Done(w, t)

\* ---- scheduler.ts: the job registry

Without(f, k) == [x \in DOMAIN f \ {k} |-> f[x]]
With(f, k, v) == [x \in DOMAIN f \cup {k} |-> IF x = k THEN v ELSE f[x]]

\* job.stop() / clearTimeout(job): the handle can fire no more (clearing a
\* timeout that already fired changes nothing: it can fire no more either)
Disarm(hs, h) == [hs EXCEPT ![h].state = "stopped"]

\* a new Timeout or ScheduledTask object: the smallest handle number not in use
FreeHandle(hs) == CHOOSE n \in 1..(Cardinality(DOMAIN hs) + 1) : n \notin DOMAIN hs

\* cancelScheduledJob that forgets to stop the handle
cancelScheduledJobNoStop(w, callId) ==
  IF callId \in DOMAIN w.jobs
  THEN [w EXCEPT !.jobs = Without(w.jobs, callId)]
  ELSE w

\* lines 127-140
cancelScheduledJob(w, callId) ==
  IF callId \in DOMAIN w.jobs
  THEN [w EXCEPT !.hs = Disarm(w.hs, w.jobs[callId]), !.jobs = Without(w.jobs, callId)]
  ELSE w

\* cron.schedule(...) / setTimeout(...), then scheduledJobs.set(id, handle)
Arm(w, kind, call) ==
  LET h == FreeHandle(w.hs)
  IN [w EXCEPT !.hs = With(w.hs, h, [kind |-> kind, call |-> call, state |-> "armed"]),
               !.jobs = With(w.jobs, call.id, h)]

\* a scheduleCall whose overdue branch lacks the return of line 58: it goes
\* on to setTimeout and scheduledJobs.set
scheduleCallNoReturn(w, t, call) ==
  LET w1 == cancelScheduledJob(w, call.id)
  IN IF IsRecurring(call)
     THEN IF ValidCron(call.recurrencePattern[1])
          THEN [w |-> Arm(w1, "cron", call), t |-> t, returned |-> TRUE]
          ELSE [w |-> w1, t |-> t, returned |-> TRUE]
     ELSE IF call.scheduledAt - now <= 0
          THEN LET r == ExecStart(Arm(w1, "timeout", call), [t EXCEPT !.call = call, !.via = "sched"])
               IN [w |-> r.w, t |-> r.t, returned |-> FALSE]
          ELSE [w |-> Arm(w1, "timeout", call), t |-> t, returned |-> TRUE]

\* lines 23-70.  returned: scheduleCall resolved without awaiting anything;
\* otherwise the task is suspended inside executeScheduledCall
scheduleCall(w, t, call) ==
  LET w1 == cancelScheduledJob(w, call.id)
  IN IF IsRecurring(call)
     THEN IF ValidCron(call.recurrencePattern[1])
          THEN [w |-> Arm(w1, "cron", call), t |-> t, returned |-> TRUE]
          ELSE [w |-> w1, t |-> t, returned |-> TRUE]
     ELSE IF call.scheduledAt - now <= 0
          THEN LET r == ExecStart(w1, [t EXCEPT !.call = call, !.via = "sched"])
               IN [w |-> r.w, t |-> r.t, returned |-> FALSE]
          ELSE [w |-> Arm(w1, "timeout", call), t |-> t, returned |-> TRUE]

\* lines 156-186: the loop over the pending calls read at startup
RECURSIVE InitLoop(_, _)
InitLoop(w, t) ==
  IF t.todo = <<>>
  THEN Done(w, t)
  ELSE LET r == scheduleCall(w, [t EXCEPT !.todo = Tail(t.todo)], Head(t.todo))
       IN IF r.returned THEN InitLoop(r.w, r.t) ELSE Ret(r.w, r.t)

\* scheduleCall returned to the route (or to initScheduler) that awaited it
AfterSchedule(w, t) ==
  CASE t.op = "create" -> Ret(w, SetPc(t, "c_count"))
    [] t.op = "init" -> InitLoop(w, t)
    [] OTHER -> Done(w, t)

\* a timeout callback that leaves its entry in the registry
AfterExecKeepsJob(w, t) ==
  CASE t.via = "timer" -> Done(w, t)
    [] t.via = "cron" -> Done(w, t)
    [] OTHER -> AfterSchedule(w, t)

\* executeScheduledCall returned: to the timeout callback (lines 61-65), the
\* cron callback (lines 39-42) or scheduleCall's overdue branch (lines 54-59)
AfterExec(w, t) ==
  CASE t.via = "timer" -> Done([w EXCEPT !.jobs = Without(w.jobs, t.call.id)], t)
    [] t.via = "cron" -> Done(w, t)
    [] OTHER -> AfterSchedule(w, t)

\* a route awaits scheduleCall(call)
RouteSchedule(w, t, call) ==
  LET r == scheduleCall(w, t, call)
  IN IF r.returned THEN AfterSchedule(r.w, r.t) ELSE Ret(r.w, r.t)

\* ---- the provider's webhooks (part_006) with twilio.ts updateCallStatus,
\* updateAmdResult and generateTwiML

\* a provider token is a sequence of pieces ("no-answer" is <<"no", "-", "answer">>);
\* Str is the string it spells
RECURSIVE Str(_)
Str(tok) == IF tok = <<>> THEN "" ELSE Head(tok) \o Str(Tail(tok))

\* a replace that finds nothing to replace
replaceNothing(tok, pat, by) == tok

\* String.prototype.replace with a string pattern: the first occurrence only
RECURSIVE replace(_, _, _)
replace(tok, pat, by) ==
  IF tok = <<>>
  THEN <<>>
  ELSE IF Head(tok) = pat
  THEN <<by>> \o Tail(tok)
  ELSE <<Head(tok)>> \o replace(Tail(tok), pat, by)

\* the CallStatus values of the provider
StatusTokens ==
  { <<"queued">>, <<"ringing">>, <<"in", "-", "progress">>, <<"completed">>, <<"failed">>,
    <<"busy">>, <<"no", "-", "answer">>, <<"canceled">> }

\* the CallDuration field of a request body: absent or a string of digits
CallDurations == { Null, Some("0"), Some("30") }

\* parseInt(CallDuration, 10)
parseInt(s) == CASE s = "0" -> 0 [] s = "30" -> 30 [] OTHER -> 0

\* part_006 line 53: CallDuration ? parseInt(CallDuration, 10) : undefined
DurationArg(d) == IF TruthyStr(d) THEN Some(parseInt(d[1])) ELSE Null

\* a lookup that correlates through the provider's request instead of the
\* stored identifier
findFirstByRequest(logs, callSid) ==
  IF callSid \in 1..Len(provider) THEN provider[callSid] ELSE 0

\* prisma.callLog.findFirst({ where: { twilioCallSid } }): a CallLog id, 0 for null
findFirst(logs, callSid) ==
  LET S == {l \in 1..Len(logs) : logs[l].twilioCallSid = Some(callSid)}
  IN IF S = {} THEN 0 ELSE CHOOSE l \in S : \A m \in S : l <= m

\* res.status(code).send(...): the response is on its way to the provider
Respond(w, t, code) == Ret(w, [t EXCEPT !.pc = "sent", !.code = code])

\* twilio.ts line 181: the literal list of terminal tokens
TerminalTokens == {"completed", "failed", "busy", "no-answer", "canceled"}

\* twilio.ts lines 174-200: the updates object; a Null field is an absent key.
\* inc: callsTotal.inc ran
StatusUpdates(status, duration) ==
  LET raw == Str(status)
      u0 == [ status |-> raw, answeredAt |-> Null, endedAt |-> Null, duration |-> Null,
              inc |-> FALSE ]
      u1 == IF raw = "in-progress" \/ raw = "in_progress"
            THEN [u0 EXCEPT !.answeredAt = Some(now), !.status = "in_progress"]
            ELSE u0
  IN IF raw \in TerminalTokens
     THEN [u1 EXCEPT !.endedAt = Some(now),
                     !.status = Str(replace(status, "-", "_")),
                     !.duration = IF duration # Null /\ duration[1] # 0 THEN duration ELSE Null,
                     !.inc = TRUE]
     ELSE u1

\* prisma.callLog.update({ data: updates })
WriteUpdates(row, u) ==
  [ row EXCEPT !.status = u.status,
               !.answeredAt = IF u.answeredAt = Null THEN @ ELSE u.answeredAt,
               !.endedAt = IF u.endedAt = Null THEN @ ELSE u.endedAt,
               !.duration = IF u.duration = Null THEN @ ELSE u.duration ]

\* an updateCallStatus that throws when it finds no CallLog
updateCallStatusThrows(w, t) ==
  IF t.log = 0
  THEN Respond(w, t, 500)
  ELSE LET u == StatusUpdates(t.token, t.duration)
       IN Ret([w EXCEPT !.logs[t.log] = WriteUpdates(@, u)],
              [t EXCEPT !.pc = "s_updated", !.inc = u.inc])

\* twilio.ts lines 169-205: updateCallStatus once findFirst has answered
updateCallStatus(w, t) ==
  IF t.log = 0
  THEN Respond(w, t, 200)
  ELSE LET u == StatusUpdates(t.token, t.duration)
       IN Ret([w EXCEPT !.logs[t.log] = WriteUpdates(@, u)],
              [t EXCEPT !.pc = "s_updated", !.inc = u.inc])

\* the seven detection results the mapping object of mapAmdResult holds
AmdResults ==
  { "human", "machine_start", "machine_end_beep", "machine_end_silence",
    "machine_end_other", "fax", "unknown" }

\* the members every object literal inherits from Object.prototype
ObjectPrototypeKeys ==
  { "constructor", "toString", "valueOf", "hasOwnProperty", "isPrototypeOf",
    "propertyIsEnumerable", "toLocaleString", "__proto__" }

\* part_006 lines 176-188: mapping[answeredBy] || 'unknown'.  The lookup is a
\* property access: an own key yields its string, an inherited member yields
\* that member (a function or object, which is truthy), anything else is
\* undefined.  An absent AnsweredBy looks up the key "undefined".
mapAmdResult(answeredBy) ==
  LET key == IF answeredBy = Null THEN "undefined" ELSE answeredBy[1]
  IN IF key \in AmdResults
     THEN [type |-> "string", value |-> key]
     ELSE IF key \in ObjectPrototypeKeys
     THEN [type |-> "function", value |-> key]
     ELSE [type |-> "string", value |-> "unknown"]

\* prisma.callLog.update({ data: { amdResult } }): the client validates the
\* value against the column's type and throws on anything but a string; the
\* route's catch block answers 500
WriteAmdResult(w, t, pc) ==
  LET v == mapAmdResult(t.answeredBy)
  IN IF v.type = "string"
     THEN Ret([w EXCEPT !.logs[t.log].amdResult = Some(v.value)], SetPc(t, pc))
     ELSE Respond(w, t, 500)

\* twilio.ts lines 217-226: updateAmdResult once findFirst has answered
updateAmdResult(w, t) ==
  IF t.log = 0 THEN Respond(w, t, 200) ELSE WriteAmdResult(w, t, "a_updated")

\* a document is the sequence of its verbs
Pause(length) == [verb |-> "Pause", length |-> length]
Play(url) == [verb |-> "Play", url |-> url]
Hangup == [verb |-> "Hangup"]

\* a builder that pauses whatever the delay is
generateTwiMLAlwaysPause(audioUrl, postBeepDelay) ==
  <<Pause(postBeepDelay), Play(audioUrl), Hangup>>

\* twilio.ts lines 283-298
generateTwiML(audioUrl, postBeepDelay) ==
  (IF postBeepDelay > 0 THEN <<Pause(postBeepDelay)>> ELSE <<>>)
    \o <<Play(audioUrl), Hangup>>

\* part_006 line 119: `${config.appBaseUrl}/api/twilio/audio/${callLog.recording.id}`
AudioUrl(cfg, recordingId) ==
  (IF cfg.appBaseUrl = Null THEN <<"null">> ELSE cfg.appBaseUrl[1])
    \o <<"/api/twilio/audio/", recordingId>>

\* part_006 lines 118-130: the document is built and sent
TwimlServe(w, t) ==
  Ret(w, [t EXCEPT !.pc = "sent", !.code = 200,
                   !.doc = generateTwiML(AudioUrl(config, t.audio), t.delay)])

\* part_006 lines 102-116: the TwiML route once findUnique has answered
TwimlFound(w, t) ==
  IF t.log = 0
  THEN Respond(w, t, 404)
  ELSE IF TruthyStr(t.answeredBy)
  THEN WriteAmdResult(w, t, "tw_updated")
  ELSE TwimlServe(w, t)

\* ---- resuming a suspended task at its pc
Run(w, t, resp) ==
  CASE t.pc = "t_created" -> TrigTry(w, t, resp)
    [] t.pc = "t_invoked" -> TrigAnswered(w, t)
    [] t.pc = "t_sid" -> AfterTrigger(w, t)
    [] t.pc = "t_failed" -> Raise(w, t)
    [] t.pc = "e_started" -> TrigStart(w, t)
    [] t.pc = "e_written" -> Ret(w, SetPc(t, "e_counted"))
    [] t.pc = "e_counted" -> AfterExec(w, t)
    [] t.pc = "e_failed" -> AfterExec(w, t)
    \* part_003 lines 112-145
    [] t.pc = "c_created" ->
         IF t.trig THEN TrigStart(w, t) ELSE RouteSchedule(w, t, t.call)
    [] t.pc = "c_lastrun" ->
         IF t.call.recurrenceEnabled
         THEN RouteSchedule(w, t, t.call)
         ELSE Ret(w, SetPc(t, "c_count"))
    [] t.pc = "c_count" -> Done(w, t)
    \* part_003 lines 196-199
    [] t.pc = "p_updated" ->
         IF t.status = "pending" THEN RouteSchedule(w, t, t.call) ELSE Done(w, t)
    \* part_003 lines 222-229
    [] t.pc = "d_deleted" -> Done(w, t)
    [] t.pc = "pa_updated" -> Done(w, t)
    \* part_003 line 266
    [] t.pc = "re_updated" -> RouteSchedule(w, t, t.call)
    \* part_003 lines 286-310
    [] t.pc = "tr_found" -> TrigStart(cancelScheduledJob(w, t.call.id), t)
    \* part_003 lines 329-337
    [] t.pc = "tr_updated" ->
         IF t.call.recurrenceEnabled
         THEN RouteSchedule(w, t, [t.call EXCEPT !.optsParsed = TRUE])
         ELSE Done(w, t)
    \* part_003 lines 444-472
    [] t.pc = "rt_found" -> TrigStart(w, t)
    [] t.pc = "i_found" -> InitLoop(w, t)
    \* part_006 lines 50-58, 77-79, 102-130
    [] t.pc = "s_found" -> updateCallStatus(w, t)
    [] t.pc = "s_updated" -> Respond(w, t, 200)
    [] t.pc = "a_found" -> updateAmdResult(w, t)
    [] t.pc = "a_updated" -> Respond(w, t, 200)
    [] t.pc = "tw_found" -> TwimlFound(w, t)
    [] t.pc = "tw_updated" -> TwimlServe(w, t)
    [] OTHER -> Done(w, t)

\* ---- the state machine

\* a handle that cannot fire and is no longer in the registry is garbage
Referenced(w) == {w.jobs[id] : id \in DOMAIN w.jobs}
Collect(w) ==
  [h \in {x \in DOMAIN w.hs : w.hs[x].state = "armed" \/ x \in Referenced(w)} |-> w.hs[h]]

\* the step of task old ended in r; a step that would exceed the model's
\* bounds on the CallLog table or on the firings of a call is not taken.  A dead process loses its
\* registry, timers and tasks.
Apply(r, old) ==
  /\ Len(r.w.logs) <= MaxLogs
  /\ \A id \in Ids : r.w.fired[id] <= MaxFirings
  /\ firings' = r.w.fired
  /\ scheduledCall' = r.w.sc
  /\ callLog' = r.w.logs
  /\ provider' = r.w.prov
  /\ crashed' = r.w.crashed
  /\ IF r.w.crashed
     THEN /\ scheduledJobs' = <<>>
          /\ handles' = <<>>
          /\ tasks' = {}
     ELSE /\ scheduledJobs' = r.w.jobs
          /\ handles' = Collect(r.w)
          /\ tasks' = (tasks \ old) \cup (IF r.t.pc = "done" THEN {} ELSE {r.t})

\* a new task may start: the process is alive, the server is listening
\* (server.ts awaits initScheduler before app.listen) and fewer than limit
\* tasks are in flight
CanStart(limit) ==
  /\ ~crashed
  /\ Cardinality(tasks) < limit
  /\ \A t \in tasks : t.op # "init"

NewRow(recEn, pattern, at, trig) ==
  [ status |-> IF trig /\ ~recEn THEN "completed" ELSE "pending",
    recurrenceEnabled |-> recEn, recurrencePattern |-> pattern,
    scheduledAt |-> at, nextRunAt |-> Some(at),
    recordingId |-> "rec-a", postBeepDelay |-> 0,
    machineDetection |-> "DetectMessageEnd", machineDetectionTimeout |-> "30",
    twilioOptions |-> <<>> ]

\* POST /scheduled (part_003 lines 87-110): validation and scheduledCall.create
CreateReq(limit) ==
  /\ CanStart(limit)
  /\ nextId <= NumCalls
  /\ \E rec \in Recurrences, at \in Times, trig \in BOOLEAN :
       LET row == NewRow(rec[1], rec[2], at, trig)
           t == [NewTask("create", CallData(nextId, row, FALSE)) EXCEPT
                   !.pc = "c_created", !.trig = trig]
       IN Apply(Ret([World EXCEPT !.sc = With(scheduledCall, nextId, row)], t), {})
  /\ nextId' = nextId + 1
  /\ UNCHANGED <<now, config>>

\* the fields a PATCH body may carry; Null is an absent field
Updates ==
  [ recurrence : {Null} \cup {Some(rec) : rec \in Recurrences},
    scheduledAt : {Null} \cup {Some(at) : at \in Times} ]

Patched(row, upd) ==
  [ row EXCEPT
      !.recurrenceEnabled = IF upd.recurrence = Null THEN @ ELSE upd.recurrence[1][1],
      !.recurrencePattern = IF upd.recurrence = Null THEN @ ELSE upd.recurrence[1][2],
      !.scheduledAt = IF upd.scheduledAt = Null THEN @ ELSE upd.scheduledAt[1],
      !.nextRunAt = IF upd.scheduledAt = Null THEN @ ELSE upd.scheduledAt ]

\* PATCH /scheduled/:id (part_003 lines 167-194) with a body out of updates
PatchOf(limit, updates) ==
  /\ CanStart(limit)
  /\ \E id \in Ids, upd \in updates :
       LET w1 == cancelScheduledJob(World, id)
       IN IF id \in DOMAIN scheduledCall
          THEN LET row == Patched(scheduledCall[id], upd)
                   t == [NewTask("patch", CallData(id, row, FALSE)) EXCEPT
                           !.pc = "p_updated", !.status = row.status]
               IN Apply(Ret([w1 EXCEPT !.sc[id] = row], t), {})
          ELSE Apply(Done(w1, NewTask("patch", NoCall)), {})
  /\ UNCHANGED <<now, config, nextId>>

PatchReq(limit) == PatchOf(limit, Updates)

\* DELETE /scheduled/:id (part_003 lines 213-220)
DeleteReq(limit) ==
  /\ CanStart(limit)
  /\ \E id \in Ids :
       LET w1 == cancelScheduledJob(World, id)
       IN IF id \in DOMAIN scheduledCall
          THEN Apply(Ret([w1 EXCEPT !.sc = Without(scheduledCall, id)],
                         SetPc(NewTask("delete", NoCall), "d_deleted")), {})
          ELSE Apply(Done(w1, NewTask("delete", NoCall)), {})
  /\ UNCHANGED <<now, config, nextId>>

\* POST /scheduled/:id/pause (part_003 lines 237-244)
PauseReq(limit) ==
  /\ CanStart(limit)
  /\ \E id \in Ids :
       LET w1 == cancelScheduledJob(World, id)
       IN IF id \in DOMAIN scheduledCall
          THEN Apply(Ret([w1 EXCEPT !.sc[id].status = "paused"],
                         SetPc(NewTask("pause", [NoCall EXCEPT !.id = id]), "pa_updated")), {})
          ELSE Apply(Done(w1, NewTask("pause", NoCall)), {})
  /\ UNCHANGED <<now, config, nextId>>

\* POST /scheduled/:id/resume (part_003 lines 255-264)
ResumeReq(limit) ==
  /\ CanStart(limit)
  /\ \E id \in DOMAIN scheduledCall :
       LET row == [scheduledCall[id] EXCEPT !.status = "pending"]
           t == SetPc(NewTask("resume", CallData(id, row, FALSE)), "re_updated")
       IN Apply(Ret([World EXCEPT !.sc[id] = row], t), {})
  /\ UNCHANGED <<now, config, nextId>>

\* POST /scheduled/:id/trigger (part_003 lines 277-288): findUnique
TriggerReq(limit) ==
  /\ CanStart(limit)
  /\ \E id \in DOMAIN scheduledCall :
       LET t == SetPc(NewTask("trigger", CallData(id, scheduledCall[id], FALSE)), "tr_found")
       IN Apply(Ret(World, t), {})
  /\ UNCHANGED <<now, config, nextId>>

\* a retry route that accepts a CallLog of any status
canRetryAny(status) == TRUE

\* part_003 line 449: ['failed', 'busy', 'no_answer'].includes(original.status)
canRetry(status) == status \in {"failed", "busy", "no_answer"}

\* POST /history/:id/retry (part_003 lines 434-454): findUnique and the status check
RetryReq(limit) ==
  /\ CanStart(limit)
  /\ \E l \in 1..Len(callLog) :
       /\ canRetry(callLog[l].status)
       /\ LET sid == callLog[l].scheduledCallId
              \* original.scheduledCall?.x || default (part_003 lines 466-469)
              data == IF sid \in DOMAIN scheduledCall
                      THEN CallData(sid, scheduledCall[sid], FALSE)
                      ELSE NoCall
              t == [NewTask("retry", [NoCall EXCEPT !.id = sid,
                                                      !.recordingId = callLog[l].recordingId,
                                                      !.machineDetection = data.machineDetection,
                                                      !.machineDetectionTimeout = data.machineDetectionTimeout,
                                                      !.twilioOptions = data.twilioOptions]) EXCEPT
                      !.pc = "rt_found", !.retryOf = Some(l)]
          IN Apply(Ret(World, t), {})
  /\ UNCHANGED <<now, config, nextId>>

\* the CallSid of a webhook request: one the provider has issued, or one it has not
CallSids == 1..(MaxLogs + 1)

\* the CallLog id in the path of a TwiML request
CallLogIds == 1..(MaxLogs + 1)

\* the AnsweredBy of a request: absent, a detection result, a value the
\* mapping does not hold, the name of a member of Object.prototype
AnsweredBys == { Null, Some("human"), Some("machine"), Some("constructor") }

\* POST /status (part_006 lines 21-56) up to updateCallStatus's findFirst
StatusReq(limit) ==
  /\ CanStart(limit)
  /\ \E sid \in CallSids, tok \in StatusTokens, dur \in CallDurations :
       LET t == [NewTask("status", NoCall) EXCEPT
                   !.pc = "s_found", !.callSid = sid, !.token = tok,
                   !.duration = DurationArg(dur), !.log = findFirst(callLog, sid)]
       IN Apply(Ret(World, t), {})
  /\ UNCHANGED <<now, config, nextId>>

\* POST /amd (part_006 lines 69-77) up to updateAmdResult's findFirst
AmdReq(limit) ==
  /\ CanStart(limit)
  /\ \E sid \in CallSids, a \in AnsweredBys :
       LET t == [NewTask("amd", NoCall) EXCEPT
                   !.pc = "a_found", !.callSid = sid, !.answeredBy = a,
                   !.log = findFirst(callLog, sid)]
       IN Apply(Ret(World, t), {})
  /\ UNCHANGED <<now, config, nextId>>

\* callLog.scheduledCall?.postBeepDelay ?? 0 (part_006 line 122)
PostBeepDelayOf(row) ==
  IF row.scheduledCallId \in DOMAIN scheduledCall
  THEN scheduledCall[row.scheduledCallId].postBeepDelay
  ELSE 0

\* /twiml/:callLogId (part_006 lines 87-100) up to findUnique, which reads the
\* CallLog with its recording and its ScheduledCall; a is
\* req.body.AnsweredBy || req.query.AnsweredBy
TwimlReq(limit) ==
  /\ CanStart(limit)
  /\ \E id \in CallLogIds, a \in AnsweredBys :
       LET found == id <= Len(callLog)
           t == [NewTask("twiml", NoCall) EXCEPT
                   !.pc = "tw_found", !.answeredBy = a,
                   !.log = IF found THEN id ELSE 0,
                   !.audio = IF found THEN callLog[id].recordingId ELSE "",
                   !.delay = IF found THEN PostBeepDelayOf(callLog[id]) ELSE 0]
       IN Apply(Ret(World, t), {})
  /\ UNCHANGED <<now, config, nextId>>

\* a timeout armed by scheduleCall expires (scheduler.ts lines 61-63)
TimerFire(limit) ==
  /\ CanStart(limit)
  /\ \E h \in DOMAIN handles :
       /\ handles[h].kind = "timeout"
       /\ handles[h].state = "armed"
       /\ now >= handles[h].call.scheduledAt
       /\ LET t == [NewTask("timer", handles[h].call) EXCEPT !.via = "timer"]
          IN Apply(ExecStart([World EXCEPT !.hs[h].state = "fired"], t), {})
  /\ UNCHANGED <<now, config, nextId>>

\* a cron task's pattern matches the clock (scheduler.ts lines 39-41)
CronFire(limit) ==
  /\ CanStart(limit)
  /\ \E h \in DOMAIN handles :
       /\ handles[h].kind = "cron"
       /\ handles[h].state = "armed"
       /\ LET t == [NewTask("cron", handles[h].call) EXCEPT !.via = "cron"]
          IN Apply(ExecStart(World, t), {})
  /\ UNCHANGED <<now, config, nextId>>

\* findMany({ where: { status: 'pending' } }) over the rows with ids in S, in id order
RECURSIVE PendingFrom(_, _)
PendingFrom(sc, S) ==
  IF S = {}
  THEN <<>>
  ELSE LET i == CHOOSE x \in S : \A y \in S : x <= y
       IN (IF sc[i].status = "pending" THEN <<CallData(i, sc[i], FALSE)>> ELSE <<>>)
            \o PendingFrom(sc, S \ {i})

\* the process is started again: server.ts start() reaches initScheduler,
\* whose findMany reads the pending rows (scheduler.ts lines 143-152)
Restart ==
  /\ tasks = {}
  /\ LET t == [NewTask("init", NoCall) EXCEPT
                 !.pc = "i_found", !.todo = PendingFrom(scheduledCall, DOMAIN scheduledCall),
                 !.pendingCalls = PendingFrom(scheduledCall, DOMAIN scheduledCall)]
     IN Apply(Ret([World EXCEPT !.jobs = <<>>, !.hs = <<>>, !.crashed = FALSE], t), {})
  /\ UNCHANGED <<now, config, nextId>>

\* a suspended task resumes
Step ==
  /\ \E t \in tasks, resp \in {"ok", "reject"} : Apply(Run(World, t, resp), {t})
  /\ UNCHANGED <<now, config, nextId>>

Tick ==
  /\ now < MaxTime
  /\ now' = now + 1
  /\ UNCHANGED <<scheduledCall, scheduledJobs, handles, callLog, provider, tasks, config, nextId, crashed, firings>>

\* the scheduler is studied with a usable configuration and with one whose
\* base URL is a localhost address (server.ts checkBaseUrl warns and goes on)
LocalUrl == Some(<<"http://", "localhost", ":3000">>)
SchedulerConfigs == { GoodConfig, [GoodConfig EXCEPT !.appBaseUrl = LocalUrl] }

Init ==
  /\ scheduledCall = <<>>
  /\ scheduledJobs = <<>>
  /\ handles = <<>>
  /\ callLog = <<>>
  /\ provider = <<>>
  /\ tasks = {}
  /\ now = 0
  /\ config \in SchedulerConfigs
  /\ nextId = 1
  /\ crashed = FALSE
  /\ firings = [id \in Ids |-> 0]

\* handlers run one at a time: a request or firing starts when none is in flight
Next ==
  \/ CreateReq(1)
  \/ PatchReq(1)
  \/ DeleteReq(1)
  \/ PauseReq(1)
  \/ ResumeReq(1)
  \/ TriggerReq(1)
  \/ RetryReq(1)
  \/ TimerFire(1)
  \/ CronFire(1)
  \/ Restart
  \/ Step
  \/ Tick

Spec == Init /\ [][Next]_vars

\* ---- triggerCall under every configuration: the routes that call it

\* the provider settings: all present, none present (a fresh installation),
\* or one of them null or empty
ProviderSettings ==
  LET all == [ twilioAccountSid : Credentials, twilioAuthToken : Credentials,
               twilioPhoneNumber : Credentials ]
      Off(p) == {f \in DOMAIN p : p[f] # Some("secret")}
  IN {p \in all : Cardinality(Off(p)) <= 1 \/ \A f \in DOMAIN p : p[f] = Null}

TriggerConfigs ==
  { [ appBaseUrl |-> u, twilioAccountSid |-> p.twilioAccountSid,
      twilioAuthToken |-> p.twilioAuthToken, twilioPhoneNumber |-> p.twilioPhoneNumber ] :
      u \in BaseUrls, p \in ProviderSettings }

InitTrigger ==
  /\ scheduledCall = <<>>
  /\ scheduledJobs = <<>>
  /\ handles = <<>>
  /\ callLog = <<>>
  /\ provider = <<>>
  /\ tasks = {}
  /\ now = 0
  /\ config \in TriggerConfigs
  /\ nextId = 1
  /\ crashed = FALSE
  /\ firings = [id \in Ids |-> 0]

NextTrigger ==
  \/ CreateReq(1)
  \/ TriggerReq(1)
  \/ RetryReq(1)
  \/ Step

SpecTrigger == InitTrigger /\ [][NextTrigger]_vars

\* ---- cancelScheduledJob on its own, over registries of several jobs

\* what the store holds for an id when the process starts: nothing, a pending
\* one-shot call due in the future, or a pending recurring call
StoredCalls ==
  {Null} \cup {Some(NewRow(FALSE, Null, at, FALSE)) : at \in 1..MaxTime}
         \cup {Some(NewRow(TRUE, Some("0 9 * * *"), 0, FALSE))}

\* the process is up: initScheduler has armed the pending calls of the store
InitCancel ==
  /\ now = 0
  /\ config = GoodConfig
  /\ \E stored \in [JobIds -> StoredCalls] :
       LET sc == [id \in {i \in JobIds : stored[i] # Null} |-> stored[id][1]]
           w0 == [ sc |-> sc, jobs |-> <<>>, hs |-> <<>>, logs |-> <<>>, prov |-> <<>>,
                   crashed |-> FALSE, fired |-> [id \in Ids |-> 0] ]
           r == InitLoop(w0, [NewTask("init", NoCall) EXCEPT !.todo = PendingFrom(sc, DOMAIN sc)])
       IN /\ scheduledCall = sc
          /\ scheduledJobs = r.w.jobs
          /\ handles = r.w.hs
  /\ callLog = <<>>
  /\ provider = <<>>
  /\ tasks = {}
  /\ nextId = NumJobs + 1
  /\ crashed = FALSE
  /\ firings = [id \in Ids |-> 0]

\* cancelScheduledJob(callId), called on the running process
CancelJob ==
  /\ \E callId \in JobIds :
       Apply(Done(cancelScheduledJob(World, callId), NewTask("cancel", NoCall)), {})
  /\ UNCHANGED <<now, config, nextId>>

NextCancel == CancelJob

SpecCancel == InitCancel /\ [][NextCancel]_vars

\* ---- the life of a CallLog: calls are placed while the provider reports
\* on them.  Calls are placed one at a time and the provider's events are
\* handled one at a time, but an event may be handled while a call is being
\* placed and a call may be placed while an event is being handled.

NoneInFlight(ops) == \A t \in tasks : t.op \notin ops

\* the store holds one ScheduledCall that ran before
CompletedCall == NewRow(FALSE, Null, 0, TRUE)

InitWebhook ==
  /\ scheduledCall = With(<<>>, 1, CompletedCall)
  /\ scheduledJobs = <<>>
  /\ handles = <<>>
  /\ callLog = <<>>
  /\ provider = <<>>
  /\ tasks = {}
  /\ now = 0
  /\ config = GoodConfig
  /\ nextId = 2
  /\ crashed = FALSE
  /\ firings = [id \in Ids |-> 0]

NextWebhook ==
  \/ (NoneInFlight({"trigger"}) /\ TriggerReq(2))
  \/ (NoneInFlight({"status"}) /\ StatusReq(2))
  \/ Step

SpecWebhook == InitWebhook /\ [][NextWebhook]_vars

\* ---- the webhooks on their own: a call is in flight at the provider

Recordings == {"rec-a", "rec-b"}

\* the CallLog of a call the provider accepted, as triggerCall leaves it
PlacedCallLog(row) ==
  [ NewCallLog(NewTask("trigger", CallData(1, row, FALSE))) EXCEPT !.twilioCallSid = Some(1) ]

InitCallbacks ==
  /\ \E rec \in Recordings, d \in 0..MaxDelay :
       LET row == [CompletedCall EXCEPT !.recordingId = rec, !.postBeepDelay = d]
       IN /\ scheduledCall = With(<<>>, 1, row)
          /\ callLog = <<PlacedCallLog(row)>>
  /\ scheduledJobs = <<>>
  /\ handles = <<>>
  /\ provider = <<1>>
  /\ tasks = {}
  /\ now = 0
  /\ config = GoodConfig
  /\ nextId = 2
  /\ crashed = FALSE
  /\ firings = [id \in Ids |-> 0]

NextCallbacks ==
  \/ StatusReq(1)
  \/ AmdReq(1)
  \/ TwimlReq(1)
  \/ Step

SpecCallbacks == InitCallbacks /\ [][NextCallbacks]_vars

\* ---- the scheduler with handlers overlapping: a request or a firing may
\* start while another one is suspended at an await

InitOverlap ==
  /\ scheduledCall = <<>>
  /\ scheduledJobs = <<>>
  /\ handles = <<>>
  /\ callLog = <<>>
  /\ provider = <<>>
  /\ tasks = {}
  /\ now = 0
  /\ config = GoodConfig
  /\ nextId = 1
  /\ crashed = FALSE
  /\ firings = [id \in Ids |-> 0]

NextOverlap ==
  \/ CreateReq(2)
  \/ DeleteReq(2)
  \/ PauseReq(2)
  \/ ResumeReq(2)
  \/ TimerFire(2)
  \/ CronFire(2)
  \/ Step
  \/ Tick

SpecOverlap == InitOverlap /\ [][NextOverlap]_vars

\* ---- startup recovery: the process starts on a store that holds calls

\* what the store may hold for an id when the process starts: nothing; a
\* pending one-shot call whose time has passed or is to come; a pending
\* recurring call with a pattern cron accepts or one it rejects (the create
\* route stores any string); a paused recurring call; a completed one-shot call
RestartRows ==
  { Null,
    Some(NewRow(FALSE, Null, 0, FALSE)),
    Some(NewRow(FALSE, Null, MaxTime, FALSE)),
    Some(NewRow(TRUE, Some("0 9 * * *"), 0, FALSE)),
    Some(NewRow(TRUE, Some("every day"), 0, FALSE)),
    Some([NewRow(TRUE, Some("0 9 * * *"), 0, FALSE) EXCEPT !.status = "paused"]),
    Some(NewRow(FALSE, Null, 0, TRUE)) }

\* server.ts start() has reached initScheduler, whose findMany has been issued
InitRestart ==
  /\ \E stored \in [StoredIds -> RestartRows] :
       LET sc == [id \in {i \in StoredIds : stored[i] # Null} |-> stored[id][1]]
       IN /\ scheduledCall = sc
          /\ tasks = { [NewTask("init", NoCall) EXCEPT
                          !.pc = "i_found", !.todo = PendingFrom(sc, DOMAIN sc),
                          !.pendingCalls = PendingFrom(sc, DOMAIN sc)] }
  /\ scheduledJobs = <<>>
  /\ handles = <<>>
  /\ callLog = <<>>
  /\ provider = <<>>
  /\ now \in Times
  /\ config \in SchedulerConfigs
  /\ nextId = NumStored + 1
  /\ crashed = FALSE
  /\ firings = [id \in StoredIds |-> 0]

NextRestart ==
  \/ Step
  \/ Restart

SpecRestart == InitRestart /\ [][NextRestart]_vars

\* ---- a registered call is re-scheduled while it fires
\*
\* The store holds one pending one-shot call, armed at startup.  One firing
\* and one route handler (PATCH, pause or resume) may be in flight together.
\* The PATCH bodies postpone the call or make it recurring.

Routes == {"patch", "pause", "resume"}

Reschedulings ==
  { [recurrence |-> Null, scheduledAt |-> Some(MaxTime)],
    [recurrence |-> Some(<<TRUE, Some("0 9 * * *")>>), scheduledAt |-> Null] }

InitReschedule ==
  /\ now = 0
  /\ config = GoodConfig
  /\ LET sc == 1 :> NewRow(FALSE, Null, 1, FALSE)
         w0 == [ sc |-> sc, jobs |-> <<>>, hs |-> <<>>, logs |-> <<>>, prov |-> <<>>,
                 crashed |-> FALSE, fired |-> [id \in Ids |-> 0] ]
         r == InitLoop(w0, [NewTask("init", NoCall) EXCEPT !.todo = PendingFrom(sc, DOMAIN sc)])
     IN /\ scheduledCall = sc
        /\ scheduledJobs = r.w.jobs
        /\ handles = r.w.hs
  /\ callLog = <<>>
  /\ provider = <<>>
  /\ tasks = {}
  /\ nextId = 2
  /\ crashed = FALSE
  /\ firings = [id \in Ids |-> 0]

NextReschedule ==
  \/ (NoneInFlight({"timer", "cron"}) /\ TimerFire(2))
  \/ (NoneInFlight({"timer", "cron"}) /\ CronFire(2))
  \/ (NoneInFlight(Routes) /\ PatchOf(2, Reschedulings))
  \/ (NoneInFlight(Routes) /\ PauseReq(2))
  \/ (NoneInFlight(Routes) /\ ResumeReq(2))
  \/ Step
  \/ Tick

SpecReschedule == InitReschedule /\ [][NextReschedule]_vars

\* ---- triggerCall's request to the provider, over detection modes and overrides

\* the store holds one ScheduledCall with any detection mode and any
\* twilioOptions text; the trigger route places calls for it
InitOptions ==
  /\ \E md \in MachineDetections, text \in TwilioOptionTexts :
       scheduledCall = 1 :> [CompletedCall EXCEPT !.machineDetection = md, !.twilioOptions = text]
  /\ scheduledJobs = <<>>
  /\ handles = <<>>
  /\ callLog = <<>>
  /\ provider = <<>>
  /\ tasks = {}
  /\ now = 0
  /\ config = GoodConfig
  /\ nextId = 2
  /\ crashed = FALSE
  /\ firings = [id \in Ids |-> 0]

NextOptions ==
  \/ TriggerReq(1)
  \/ RetryReq(1)
  \/ Step

SpecOptions == InitOptions /\ [][NextOptions]_vars

\* ---- the retry route over CallLogs of every status

StoredStatuses ==
  { "initiated", "ringing", "in_progress", "completed", "failed", "busy", "no_answer",
    "canceled" }

\* the store holds one ScheduledCall and the CallLog of one attempt the
\* provider accepted, in any status the webhooks may have given it
InitRetry ==
  /\ scheduledCall = 1 :> CompletedCall
  /\ \E st \in StoredStatuses :
       callLog = << [PlacedCallLog(CompletedCall) EXCEPT !.status = st] >>
  /\ scheduledJobs = <<>>
  /\ handles = <<>>
  /\ provider = <<1>>
  /\ tasks = {}
  /\ now = 0
  /\ config \in TriggerConfigs
  /\ nextId = 2
  /\ crashed = FALSE
  /\ firings = [id \in Ids |-> 0]

NextRetry ==
  \/ RetryReq(1)
  \/ TriggerReq(1)
  \/ Step

SpecRetry == InitRetry /\ [][NextRetry]_vars

\* ---- the process is shut down while calls fire, and started again

\* SIGTERM (server.ts lines 279-284): process.exit while handlers may be in
\* flight; the store keeps what was written, the registry and the timers are
\* gone.  The signal arrives while a call fires.
Shutdown ==
  /\ ~crashed
  /\ \E t \in tasks : t.op \in {"timer", "cron"}
  /\ crashed' = TRUE
  /\ tasks' = {}
  /\ scheduledJobs' = <<>>
  /\ handles' = <<>>
  /\ UNCHANGED <<scheduledCall, callLog, provider, now, config, nextId, firings>>

\* the process is up with one pending call armed: a one-shot call to come or
\* a recurring call
InitRecovery ==
  /\ now = 0
  /\ config = GoodConfig
  /\ \E stored \in StoredCalls \ {Null} :
       LET sc == 1 :> stored[1]
           w0 == [ sc |-> sc, jobs |-> <<>>, hs |-> <<>>, logs |-> <<>>, prov |-> <<>>,
                   crashed |-> FALSE, fired |-> [id \in Ids |-> 0] ]
           r == InitLoop(w0, [NewTask("init", NoCall) EXCEPT !.todo = PendingFrom(sc, DOMAIN sc)])
       IN /\ scheduledCall = sc
          /\ scheduledJobs = r.w.jobs
          /\ handles = r.w.hs
  /\ callLog = <<>>
  /\ provider = <<>>
  /\ tasks = {}
  /\ nextId = 2
  /\ crashed = FALSE
  /\ firings = [id \in Ids |-> 0]

NextRecovery ==
  \/ TimerFire(1)
  \/ CronFire(1)
  \/ Step
  \/ Tick
  \/ Shutdown
  \/ (crashed /\ Restart)

SpecRecovery == InitRecovery /\ [][NextRecovery]_vars

\* a handler in flight goes on when its await resolves, and a process that
\* is down is started again
SpecRecoveryFair ==
  InitRecovery /\ [][NextRecovery]_vars /\ WF_vars(Step) /\ WF_vars(crashed /\ Restart)

\* ---- properties

\* no API request, firing or startup is in flight, and the process is alive
Quiescent == tasks = {} /\ ~crashed

\* C1: in every quiescent state, for every ScheduledCall id, the job registry
\* holds an entry for the id if and only if the stored status of that
\* ScheduledCall is pending.
C1_RegistryIffPending ==
  Quiescent =>
    \A id \in Ids :
      (id \in DOMAIN scheduledJobs)
        <=> (id \in DOMAIN scheduledCall /\ scheduledCall[id].status = "pending")

\* the step ends task t: its handler or callback returns (or throws)
Returns(t) == t \in tasks /\ tasks' = tasks \ {t}

\* a timeout callback whose executeScheduledCall returned through the try
\* block (triggerCall succeeded, the final status is written and counted)
TimerSucceeded(t) == t.op = "timer" /\ t.pc = "e_counted"

\* C2: when the timer firing of a one-shot call runs to completion with
\* triggerCall succeeding, the stored status is completed, nextRunAt is null
\* and the job registry has no entry for the id.
C2_OneShotCompletes ==
  [][\A t \in tasks :
       (TimerSucceeded(t) /\ Returns(t))
         => /\ t.call.id \notin DOMAIN scheduledJobs'
            /\ t.call.id \in DOMAIN scheduledCall'
            /\ scheduledCall'[t.call.id].status = "completed"
            /\ scheduledCall'[t.call.id].nextRunAt = Null]_vars

\* C2 witness: a one-shot call's timer firing has placed the call with the
\* provider and written the final status; its callback is about to return
C2_Witness ==
  \E t \in tasks :
    /\ TimerSucceeded(t)
    /\ ~t.call.recurrenceEnabled
    /\ callLog[t.log].twilioCallSid # Null
    /\ t.call.id \in DOMAIN scheduledJobs

\* C3: executeScheduledCall runs at most one time for a given one-shot id.
C3_OneShotFiresOnce == \A id \in Ids : firings[id] <= 1

\* C4: no step gives the status completed to a ScheduledCall whose
\* recurrenceEnabled is true, whatever its recurrencePattern and whichever
\* path fires it.
C4_RecurringNeverCompleted ==
  [][\A id \in DOMAIN scheduledCall' :
       (scheduledCall'[id].recurrenceEnabled /\ scheduledCall'[id].status = "completed")
         => (id \in DOMAIN scheduledCall /\ scheduledCall[id].status = "completed")]_vars

\* C5: every cron firing of a recurring call creates one CallLog for it and
\* leaves its status pending or in_progress.
C5_CronFiringLogsAndCycles ==
  [][\A t \in tasks :
       (t.op = "cron" /\ Returns(t))
         => /\ t.log # 0
            /\ t.call.id \in DOMAIN scheduledCall'
            /\ scheduledCall'[t.call.id].status \in {"pending", "in_progress"}]_vars

\* the step of task t calls scheduleCall(t.call)
CallsSchedule(t) ==
  \/ t.pc = "c_created" /\ ~t.trig
  \/ t.pc = "c_lastrun" /\ t.call.recurrenceEnabled
  \/ t.pc = "p_updated" /\ t.status = "pending"
  \/ t.pc = "re_updated"
  \/ t.pc = "tr_updated" /\ t.call.recurrenceEnabled

\* a call with a recurrence pattern (one cron accepts) or a future scheduledAt
Registers(call) ==
  IF IsRecurring(call) THEN ValidCron(call.recurrencePattern[1]) ELSE call.scheduledAt > now

\* the handles of an id that can still fire
ArmedFor(hs, id) == {h \in DOMAIN hs : hs[h].call.id = id /\ hs[h].state = "armed"}

C7_CancelRemovesOneEntry ==
  \A callId \in JobIds :
    LET w == cancelScheduledJob(World, callId)
    IN /\ w.sc = scheduledCall /\ w.logs = callLog /\ w.prov = provider
       /\ w.crashed = crashed
       /\ callId \notin DOMAIN scheduledJobs => w = World
       /\ callId \in DOMAIN scheduledJobs =>
            /\ DOMAIN w.jobs = DOMAIN scheduledJobs \ {callId}
            /\ w.hs[scheduledJobs[callId]].state = "stopped"
            /\ \A other \in DOMAIN w.jobs :
                 /\ w.jobs[other] = scheduledJobs[other]
                 /\ w.hs[w.jobs[other]] = handles[scheduledJobs[other]]

\* C7 witness: the job of one call was cancelled (its pending row has no
\* entry any more) while two other jobs stay registered and armed
C7_Witness ==
  \E callId \in DOMAIN scheduledCall, a, b \in DOMAIN scheduledJobs :
    /\ callId \notin DOMAIN scheduledJobs
    /\ a # b
    /\ handles[scheduledJobs[a]].state = "armed"
    /\ handles[scheduledJobs[b]].state = "armed"
    /\ DOMAIN handles = {scheduledJobs[a], scheduledJobs[b]}

\* the base URLs of the study that are unset or point at a loopback address
UnusableBaseUrls ==
  { Null, Some(<<>>),
    Some(<<"http://", "localhost", ":3000">>),
    Some(<<"http://", "LOCALHOST", ":3000">>),
    Some(<<"http://", "127.0.0.1", ":3000">>),
    Some(<<"http://", "0.0.0.0">>) }

\* the places a task can only be at when a triggerCall it made went past the
\* base-URL check, or returned to its caller
PastUrlCheck ==
  {"t_created", "t_invoked", "t_sid", "t_failed", "e_written", "e_counted", "c_lastrun",
   "tr_updated"}

\* C8: with the callback base URL unset or pointing at a loopback address,
\* triggerCall fails before any side effect: it never gets past the check,
\* no CallLog row is created and the provider is never contacted.
C8_BadUrlNoSideEffect ==
  config.appBaseUrl \in UnusableBaseUrls
    => /\ callLog = <<>>
       /\ provider = <<>>
       /\ \A t \in tasks : t.pc \notin PastUrlCheck

\* C8 witness: the base URL is an upper-case loopback address, a firing has
\* called triggerCall, which threw (the call is failed), and no CallLog exists
C8_Witness ==
  /\ config.appBaseUrl = Some(<<"http://", "LOCALHOST", ":3000">>)
  /\ \E id \in DOMAIN scheduledCall : scheduledCall[id].status = "failed"
  /\ callLog = <<>>
  /\ tasks = {}

\* C9: triggerCall creates one CallLog, with status initiated, and only then
\* invokes the provider, once, for that row; if the provider rejects the call
\* that same row is marked failed with an error message, and the error is
\* re-raised: the caller does not go on as after a success.
C9_LogBeforeProvider ==
  [][/\ \A t \in tasks' \ tasks :
          t.pc = "t_created"
            => /\ callLog' = Append(callLog, callLog'[t.log])
               /\ t.log = Len(callLog')
               /\ callLog'[t.log].status = "initiated"
               /\ provider' = provider
     /\ Len(callLog') # Len(callLog) => \E t \in tasks' \ tasks : t.pc = "t_created"
     /\ provider' # provider
          => \E t \in tasks :
               /\ t.pc = "t_created"
               /\ callLog[t.log].status = "initiated"
               /\ provider' = Append(provider, t.log)
               /\ \A s \in 1..Len(provider) : provider[s] # t.log
     /\ \A t \in tasks :
          (t.pc = "t_invoked" /\ t.resp = "reject" /\ t \notin tasks')
            => /\ callLog'[t.log].status = "failed"
               /\ callLog'[t.log].errorMessage # Null
               /\ \A u \in tasks' : u.pc = "t_failed" /\ u.log = t.log
     /\ \A t \in tasks :
          (t.pc = "t_failed" /\ t \notin tasks')
            => \A u \in tasks' : u.pc = "e_failed"]_vars

\* C9 witness: the provider was asked to create the call of a CallLog and
\* rejected it; the row is failed and carries the error
C9_Witness ==
  \E l \in 1..Len(callLog) :
    /\ callLog[l].status = "failed"
    /\ callLog[l].errorMessage = Some("provider rejected the call")
    /\ \E s \in 1..Len(provider) : provider[s] = l

\* provider credentials or the provider outbound number are missing
MissingProviderConfig ==
  \/ config.twilioAccountSid \in {Null, Some("")}
  \/ config.twilioAuthToken \in {Null, Some("")}
  \/ config.twilioPhoneNumber \in {Null, Some("")}

\* C10 as claimed: with provider credentials or the outbound number missing,
\* no CallLog row exists for the attempt.
C10_MissingConfigNoCallLog == MissingProviderConfig => callLog = <<>>

\* C10 amended: with provider credentials or the outbound number missing,
\* triggerCall fails without contacting the provider and never returns
\* normally, but only after it created the CallLog: the row of the attempt
\* stays, marked failed with an error message.
C10_MissingConfigFailsAfterLog ==
  MissingProviderConfig
    => /\ provider = <<>>
       /\ \A t \in tasks : t.pc \notin {"t_invoked", "t_sid", "e_written", "e_counted",
                                        "c_lastrun", "tr_updated"}
       /\ \A l \in 1..Len(callLog) :
            \/ /\ callLog[l].status = "initiated"
               /\ \E t \in tasks : t.pc = "t_created" /\ t.log = l
            \/ /\ callLog[l].status = "failed"
               /\ callLog[l].errorMessage # Null
               /\ callLog[l].twilioCallSid = Null

\* C10 witness: the base URL is usable, the auth token is missing, and an
\* attempt left its CallLog failed with the configuration error
C10_Witness ==
  /\ config.appBaseUrl = PublicUrl
  /\ config.twilioAuthToken = Null
  /\ tasks = {}
  /\ \E l \in 1..Len(callLog) :
       /\ callLog[l].status = "failed"
       /\ callLog[l].errorMessage = Some("Twilio credentials not configured")

\* ---- properties of the CallLog life cycle

\* the terminal statuses of a CallLog
TerminalStatuses == {"completed", "failed", "busy", "no_answer", "canceled"}

\* C11: the status of a CallLog is monotonic: once it is terminal (completed,
\* failed, busy, no_answer, canceled), no later status event changes it
C11_TerminalStatusIsFinal ==
  [][\A l \in 1..Len(callLog) :
       callLog[l].status \in TerminalStatuses => callLog'[l].status = callLog[l].status]_vars

\* C12: on every CallLog, duration is set if and only if endedAt is set, and
\* both are set only on a row whose status is terminal (rows failed by
\* triggerCall, rows updated by status events with or without a duration)
C12_DurationIffEndedAt ==
  \A l \in 1..Len(callLog) :
    /\ callLog[l].duration # Null <=> callLog[l].endedAt # Null
    /\ callLog[l].endedAt # Null => callLog[l].status \in TerminalStatuses

EarlyEvent(t, u) ==
  /\ t.op = "status" /\ t.pc = "s_found"
  /\ u.pc = "t_invoked" /\ u.resp = "ok" /\ u.sid = t.callSid

\* C15: a status event that arrives after the provider created the call but
\* before triggerCall has written the identifier is dropped and answered with
\* success; the CallLog stays initiated; and the write-back of the identifier
\* still succeeds afterwards
C15_EarlyEventDropped ==
  [][/\ \A t, u \in tasks :
          EarlyEvent(t, u) /\ t \notin tasks' =>
            /\ callLog' = callLog
            /\ callLog[u.log].status = "initiated"
            /\ tasks' = (tasks \ {t}) \cup {[t EXCEPT !.pc = "sent", !.code = 200]}
     /\ \A u \in tasks :
          u.pc = "t_invoked" /\ u.resp = "ok" /\ u \notin tasks' =>
            /\ callLog' = [callLog EXCEPT ![u.log].twilioCallSid = Some(u.sid)]
            /\ callLog'[u.log].status = "initiated"]_vars

\* an event for a call was dropped with 200 before the identifier was stored,
\* and the identifier has been stored since
C15_Witness ==
  \E t, u \in tasks :
    /\ t.op = "status" /\ t.pc = "sent" /\ t.code = 200 /\ t.log = 0
    /\ u.pc = "t_sid" /\ u.sid = t.callSid
    /\ callLog[u.log].twilioCallSid = Some(u.sid)
    /\ callLog[u.log].status = "initiated"

\* the vocabulary of the CallLog status column
CallLogStatuses ==
  {"initiated", "ringing", "in_progress", "completed", "failed", "busy", "no_answer", "canceled"}

\* C16: the stored status of every CallLog is always a member of {initiated,
\* ringing, in_progress, completed, failed, busy, no_answer, canceled}: no
\* hyphenated or raw provider token is ever persisted
C16_StatusInVocabulary ==
  \A l \in 1..Len(callLog) : callLog[l].status \in CallLogStatuses

\* ---- properties of the webhooks

\* a status or detection callback whose findFirst has answered, for an
\* identifier no CallLog holds
UnknownSid(t) ==
  /\ t.pc \in {"s_found", "a_found"}
  /\ \A l \in 1..Len(callLog) : callLog[l].twilioCallSid # Some(t.callSid)

TerminalEvents ==
  { <<"completed">>, <<"failed">>, <<"busy">>, <<"no", "-", "answer">>, <<"canceled">> }

Normalized(tok) ==
  CASE tok = <<"completed">> -> "completed"
    [] tok = <<"failed">> -> "failed"
    [] tok = <<"busy">> -> "busy"
    [] tok = <<"no", "-", "answer">> -> "no_answer"
    [] tok = <<"canceled">> -> "canceled"

\* C17: a status event for a known CallLog with a terminal token (completed,
\* failed, busy, no-answer, canceled) stores the normalized status and sets
\* endedAt; an event with any other token leaves endedAt as it was
C17_TerminalEventEndsCall ==
  [][\A t \in tasks :
       t.pc = "s_found" /\ t.log # 0 /\ t \notin tasks' =>
         IF t.token \in TerminalEvents
         THEN /\ callLog'[t.log].status = Normalized(t.token)
              /\ callLog'[t.log].endedAt = Some(now)
         ELSE callLog'[t.log].endedAt = callLog[t.log].endedAt]_vars

\* a no-answer event has been applied to the placed call
C17_Witness ==
  \E t \in tasks :
    /\ t.pc = "s_updated" /\ t.token = <<"no", "-", "answer">>
    /\ callLog[t.log].status = "no_answer"
    /\ callLog[t.log].endedAt # Null

\* C18: the detection-result mapping is total and closed: each of the seven
\* results maps to itself, every other AnsweredBy string a request carries maps
\* to unknown (the mapping returns a string, it never raises), and the result
\* stored on a CallLog is always one of the seven
C18_MappingTotalAndClosed ==
  /\ \A r \in AmdResults : mapAmdResult(Some(r)) = [type |-> "string", value |-> r]
  /\ \A t \in tasks :
       t.op \in {"amd", "twiml"} /\ t.answeredBy # Null /\ t.answeredBy[1] \notin AmdResults =>
         mapAmdResult(t.answeredBy) = [type |-> "string", value |-> "unknown"]
  /\ \A l \in 1..Len(callLog) :
       callLog[l].amdResult # Null => callLog[l].amdResult[1] \in AmdResults

\* what the spec's mapping gives for an AnsweredBy string
MappedResult(a) == IF a \in AmdResults THEN a ELSE "unknown"

\* the step of TwiML task t stores the mapped detection result and sends nothing yet
PersistsResult(t) ==
  /\ callLog' = [callLog EXCEPT ![t.log].amdResult = Some(MappedResult(t.answeredBy[1]))]
  /\ tasks' = (tasks \ {t}) \cup {SetPc(t, "tw_updated")}

\* the step of TwiML task t sends the document of the CallLog's recording and
\* post-beep delay and changes no CallLog
SendsDocument(t) ==
  /\ callLog' = callLog
  /\ tasks' = (tasks \ {t}) \cup
       {[t EXCEPT !.pc = "sent", !.code = 200,
                  !.doc = generateTwiML(AudioUrl(config, t.audio), t.delay)]}

\* C19: an instruction-fetch for a known CallLog that carries a detection
\* result persists the mapped result on the CallLog before the document is
\* generated and sent; one without a detection result does not modify the
\* CallLog; in both cases the document returned is the same
C19_PersistBeforeDocument ==
  [][\A t \in tasks :
       t.op = "twiml" /\ t.log # 0 /\ t \notin tasks' =>
         CASE t.pc = "tw_found" /\ TruthyStr(t.answeredBy) -> PersistsResult(t)
           [] t.pc = "tw_found" /\ ~TruthyStr(t.answeredBy) -> SendsDocument(t)
           [] t.pc = "tw_updated" -> SendsDocument(t)
           [] OTHER -> callLog' = callLog]_vars

\* the audio URLs and delays of the stored calls
AudioUrls == {AudioUrl(GoodConfig, rec) : rec \in Recordings}

\* the document the spec's builder gives
Document(audioUrl, delay) ==
  IF delay > 0
  THEN <<Pause(delay), Play(audioUrl), Hangup>>
  ELSE <<Play(audioUrl), Hangup>>

\* C20: the instruction document builder returns, for a delay above 0, a
\* pause of exactly that length, then a play of the audio URL, then a hangup,
\* and for delay 0 the play and the hangup only; the document depends on
\* nothing but the audio URL and the delay: every document the TwiML route
\* serves is the one of its CallLog's audio URL and delay, whatever the
\* request's detection result and the CallLog's state
C20_DocumentOfUrlAndDelay ==
  /\ \A u \in AudioUrls, d \in 0..MaxDelay : generateTwiML(u, d) = Document(u, d)
  /\ \A t \in tasks :
       t.op = "twiml" /\ t.pc = "sent" /\ t.code = 200 =>
         t.doc = Document(AudioUrl(config, t.audio), t.delay)

\* a document with a pause of the longest delay was served
C20_Witness ==
  \E t \in tasks :
    /\ t.op = "twiml" /\ t.pc = "sent" /\ t.code = 200
    /\ t.delay = MaxDelay
    /\ t.doc = <<Pause(MaxDelay), Play(AudioUrl(config, "rec-b")), Hangup>>

\* ---- properties of firings and of the registry under overlapping handlers

\* a timer or cron callback
Firing(t) == t.op \in {"timer", "cron"}

\* C21: no exception escapes a scheduler firing: whichever step of
\* executeScheduledCall fails, also the write of the failed status itself, the
\* firing ends without killing the process and with its registry and the
\* timers and cron tasks of the process intact, and a firing that failed
\* leaves the ScheduledCall failed when the row still exists
C21_FiringNeverThrows ==
  [][\A t \in tasks :
       Firing(t) /\ t \notin tasks' =>
         /\ ~crashed'
         /\ \A u \in tasks' \ tasks :
              u.pc = "e_failed" =>
                /\ u.call.id \in DOMAIN scheduledCall'
                /\ scheduledCall'[u.call.id].status = "failed"]_vars

\* the places of a task inside executeScheduledCall while its triggerCall has
\* not returned
TriggerInFlight == {"e_started", "t_created", "t_invoked", "t_sid", "t_failed"}

\* the step in which executeScheduledCall returns to its caller
ExecReturns(t) == t.ctx = "exec" /\ t.pc \in {"e_counted", "e_failed"} /\ t \notin tasks'

\* C22: in_progress is transient for a ScheduledCall: a row is in_progress
\* only while a firing of it has its triggerCall in flight, and when the
\* firing ends the status is completed (one-shot, success), failed (one-shot,
\* failure) or pending (recurring, on success and on failure alike)
C22_InProgressResolves ==
  [][/\ \A id \in DOMAIN scheduledCall' :
          scheduledCall'[id].status = "in_progress" =>
            \E t \in tasks' : t.ctx = "exec" /\ t.call.id = id /\ t.pc \in TriggerInFlight
     /\ \A t \in tasks :
          ExecReturns(t) /\ t.call.id \in DOMAIN scheduledCall' =>
            scheduledCall'[t.call.id].status =
              IF IsRecurring(t.call) THEN "pending"
              ELSE IF t.pc = "e_counted" THEN "completed" ELSE "failed"]_vars

\* ---- properties of startup recovery

\* the registry holds one handle for the id, armed, and no other handle of the
\* id can still fire
OneEntry(jobs, hs, id) ==
  /\ id \in DOMAIN jobs
  /\ ArmedFor(hs, id) = {jobs[id]}

\* C23: when initScheduler completes after a restart, every ScheduledCall
\* that was pending in the store has been handled: a recurring one and a
\* one-shot one whose scheduledAt is to come have exactly one registry entry,
\* a one-shot one whose scheduledAt has passed has been fired once, and no
\* other ScheduledCall has a registry entry
C23_RestartRestoresPending ==
  [][\A t \in tasks :
       t.op = "init" /\ Returns(t) /\ ~crashed' =>
         /\ \A i \in 1..Len(t.pendingCalls) :
              LET call == t.pendingCalls[i]
              IN IF call.recurrenceEnabled \/ call.scheduledAt > now
                 THEN OneEntry(scheduledJobs', handles', call.id)
                 ELSE /\ firings'[call.id] = 1
                      /\ call.id \notin DOMAIN scheduledJobs'
         /\ \A id \in DOMAIN scheduledJobs' :
              \E i \in 1..Len(t.pendingCalls) : t.pendingCalls[i].id = id]_vars

\* C24: a firing that is blocked on the provider or on the store keeps no
\* other ScheduledCall waiting: the handler that awaits executeScheduledCall
\* has no other call left to schedule, so every other pending call has been
\* armed (or fired) already and executing one job delays no unrelated job
C24_FiringDelaysNoOtherJob ==
  \A t \in tasks :
    t.ctx = "exec" => \A i \in 1..Len(t.todo) : t.todo[i].id = t.call.id

\* the pause route has just run cancelScheduledJob(id): its handler is new in
\* tasks' (the route awaits the store after the call)
Cancels == \E t \in tasks' \ tasks : t.op = "pause" /\ t.pc = "pa_updated"

\* C25: when cancelScheduledJob runs while a firing of the same job is in
\* flight, the firing is left alone (it goes on to its CallLog and provider
\* call) and no handle of the id can fire afterwards: a new firing needs a
\* new scheduleCall
C25_CancelSparesFiringStopsFuture ==
  [][(Cancels /\ \E f \in tasks : Firing(f)) =>
       /\ \A f \in tasks : Firing(f) => f \in tasks'
       /\ \A f \in tasks : Firing(f) => ArmedFor(handles', f.call.id) = {}]_vars

\* C26: every timer or cron task that can still fire is the handle the
\* registry stores under its id, so cancelScheduledJob can reach it; a
\* one-shot firing that completes after its id was re-scheduled leaves the
\* newer registration in place
C26_ArmedHandleIsRegistered ==
  \A h \in DOMAIN handles :
    handles[h].state = "armed" =>
      /\ handles[h].call.id \in DOMAIN scheduledJobs
      /\ scheduledJobs[handles[h].call.id] = h

\* ---- properties of the request to the provider

\* the handlers whose calls.create request is in flight
Requesting == {t \in tasks : t.pc = "t_invoked"}

AsyncKeys == {"asyncAmd", "asyncAmdStatusCallback", "asyncAmdStatusCallbackMethod"}

HasMember(text, key) == \E i \in 1..Len(text) : text[i][1] = key

C28_UrlEmbedsCallLogId ==
  \A t \in Requesting :
    /\ "url" \in DOMAIN t.opts
    /\ t.opts.url = config.appBaseUrl[1] \o <<"/api/twilio/twiml/", ToString(t.log)>>

\* ---- properties of the retry route

\* C29: the engine never retries on its own: a CallLog with retryOf set is
\* created only by the handler of a retry request, only for an original whose
\* status is failed, busy or no_answer, with retryOf the original's id, and
\* no step of that handler changes the original CallLog
C29_RetryOnlyOnRequest ==
  [][/\ \A i \in (Len(callLog) + 1)..Len(callLog') :
          callLog'[i].retryOf # Null =>
            \E t \in tasks :
              /\ t.op = "retry" /\ t \notin tasks'
              /\ t.retryOf = callLog'[i].retryOf
              /\ t.retryOf[1] \in 1..Len(callLog)
              /\ callLog[t.retryOf[1]].status \in {"failed", "busy", "no_answer"}
     /\ \A t \in tasks :
          t.op = "retry" /\ t \notin tasks' =>
            callLog'[t.retryOf[1]] = callLog[t.retryOf[1]]
     /\ \A t \in tasks' \ tasks :
          (t.retryOf # Null /\ \A u \in tasks : u.retryOf # t.retryOf) =>
            t.op = "retry" /\ t.pc = "rt_found"]_vars

\* a busy call has been retried: its CallLog is as it was and a second
\* CallLog names it in retryOf
C29_Witness ==
  /\ Len(callLog) = 2
  /\ callLog[1].status = "busy"
  /\ callLog[2].retryOf = Some(1)

\* ---- properties of pause and resume

\* the step starts the handler of a resume request
ResumeStarts(t) == t \in tasks' \ tasks /\ t.op = "resume" /\ t.pc = "re_updated"

\* C30: pause and resume change the store and the registry together: when
\* the pause route returns the call is paused and the registry has no entry
\* for it; when the resume route returns the call is pending and has exactly
\* one registry entry, or it is an overdue one-shot call that has fired; and
\* resume acts only on a call whose status is paused
C30_PauseResumeLockstep ==
  [][/\ \A t \in tasks :
          (t.op = "pause" /\ t.pc = "pa_updated" /\ Returns(t)
             /\ t.call.id \in DOMAIN scheduledCall') =>
            /\ scheduledCall'[t.call.id].status = "paused"
            /\ t.call.id \notin DOMAIN scheduledJobs'
     /\ \A t \in tasks :
          (t.op = "resume" /\ Returns(t) /\ ~crashed'
             /\ t.call.id \in DOMAIN scheduledCall') =>
            \/ /\ scheduledCall'[t.call.id].status = "pending"
               /\ OneEntry(scheduledJobs', handles', t.call.id)
            \/ /\ ~IsRecurring(t.call)
               /\ t.call.scheduledAt <= now
               /\ firings'[t.call.id] >= 1
     /\ \A t \in tasks' :
          ResumeStarts(t) => scheduledCall[t.call.id].status = "paused"]_vars

\* ---- properties of overdue calls, of nextRunAt and of PATCH

\* the task is inside scheduleCall's overdue branch (lines 54-59)
InOverdueBranch(t) == t.ctx = "exec" /\ t.via = "sched"

\* C31: scheduleCall on a one-shot call whose scheduledAt is not after now
\* fires it at once and returns only when the firing has completed: at that
\* moment the call's status is completed or failed, no timer is armed and no
\* registry entry exists for the id; and the CallLog the firing created was
\* created with status initiated
C31_OverdueFiresSynchronously ==
  [][/\ \A t \in tasks :
          (InOverdueBranch(t) /\ ExecReturns(t) /\ ~crashed') =>
            /\ ~t.call.recurrenceEnabled => firings'[t.call.id] >= 1
            /\ t.call.id \in DOMAIN scheduledCall' =>
                 scheduledCall'[t.call.id].status \in {"completed", "failed"}
            /\ t.call.id \notin DOMAIN scheduledJobs'
            /\ ArmedFor(handles', t.call.id) = {}
     /\ \A t \in tasks :
          (InOverdueBranch(t) /\ t \notin tasks') =>
            \A i \in (Len(callLog) + 1)..Len(callLog') :
              /\ callLog'[i].status = "initiated"
              /\ callLog'[i].scheduledCallId = t.call.id]_vars

\* an overdue call has been fired inside scheduleCall, its CallLog exists and
\* scheduleCall has returned to the create route
C31_Witness ==
  \E t \in tasks :
    /\ t.op = "create" /\ t.pc = "c_count" /\ InOverdueBranch(t)
    /\ t.log # 0
    /\ scheduledCall[t.call.id].status = "completed"

\* C32: when a firing of a recurring call has succeeded, the stored nextRunAt
\* is the pattern's next occurrence: a time after the moment the firing
\* completed
C32_NextRunAtAdvances ==
  [][\A t \in tasks :
       (ExecReturns(t) /\ t.pc = "e_counted" /\ IsRecurring(t.call)
          /\ t.call.id \in DOMAIN scheduledCall') =>
         /\ scheduledCall'[t.call.id].nextRunAt # Null
         /\ scheduledCall'[t.call.id].nextRunAt[1] > now]_vars

\* the PATCH route returns after a successful update
PatchReturns(t) == t.op = "patch" /\ t.pc # "start" /\ Returns(t)

\* C33: PATCH re-arms a call exactly when its status after the update is
\* pending: when the route returns, a pending call has one registration, it
\* is built from the updated data and no other handle of the id can fire; a
\* call that is not pending has no registration and no handle that can fire
C33_PatchRearmsIffPending ==
  [][\A t \in tasks :
       (PatchReturns(t) /\ t.call.id \in DOMAIN scheduledCall') =>
         IF scheduledCall'[t.call.id].status = "pending"
         THEN /\ OneEntry(scheduledJobs', handles', t.call.id)
              /\ handles'[scheduledJobs'[t.call.id]].call = t.call
         ELSE /\ t.call.id \notin DOMAIN scheduledJobs'
              /\ ArmedFor(handles', t.call.id) = {}]_vars

\* ---- properties of delete, manual trigger, recovery, pause and failure

\* the ids of ScheduledCalls that were created and have been deleted
Deleted == {id \in 1..(nextId - 1) : id \notin DOMAIN scheduledCall}

\* C34: a deleted ScheduledCall never fires again and the scheduler writes
\* nothing more for its id: no handle of the id can fire, no CallLog is
\* created for it, and a firing that was in flight when the delete arrived
\* ends without taking the process down
C34_DeletedNeverFires ==
  [][\A id \in Deleted :
       /\ ArmedFor(handles', id) = {}
       /\ \A i \in (Len(callLog) + 1)..Len(callLog') : callLog'[i].scheduledCallId # id
       /\ ~crashed']_vars

\* the manual trigger route returns; it succeeded when it returns after its
\* status update (it answers 500 from its catch block otherwise)
TriggerReturns(t) == t.op = "trigger" /\ Returns(t)
TriggerSucceeded(t) == t.pc = "tr_updated"

\* C35: a manual trigger of a one-shot call takes the place of its
\* scheduled run: when it succeeds it has created one CallLog, the status is
\* completed and the registry has no entry for the id; when its call attempt
\* fails the call is as before, pending with its job armed
C35_ManualTriggerOneShot ==
  [][\A t \in tasks :
       (TriggerReturns(t) /\ ~t.call.recurrenceEnabled
          /\ t.call.id \in DOMAIN scheduledCall') =>
         IF TriggerSucceeded(t)
         THEN /\ t.log \in 1..Len(callLog')
              /\ callLog'[t.log].scheduledCallId = t.call.id
              /\ scheduledCall'[t.call.id].status = "completed"
              /\ t.call.id \notin DOMAIN scheduledJobs'
              /\ ArmedFor(handles', t.call.id) = {}
         ELSE (scheduledCall'[t.call.id].status = "pending" /\ t.call.scheduledAt > now) =>
                OneEntry(scheduledJobs', handles', t.call.id)]_vars

\* C36: a manual trigger of a recurring call registers it again for its next
\* occurrence: when the route returns the registry holds one cron
\* registration for the id, and a later cron firing, with a usable
\* configuration, passes the call's options to the provider and succeeds
\* unless the provider rejects the call
C36_ManualTriggerRecurring ==
  [][/\ \A t \in tasks :
          (TriggerReturns(t) /\ TriggerSucceeded(t) /\ IsRecurring(t.call)
             /\ ValidCron(t.call.recurrencePattern[1])
             /\ t.call.id \in DOMAIN scheduledCall') =>
            /\ OneEntry(scheduledJobs', handles', t.call.id)
            /\ handles'[scheduledJobs'[t.call.id]].kind = "cron"
     /\ \A t \in tasks :
          (t.op = "cron" /\ ExecReturns(t) /\ config = GoodConfig /\ t.resp # "reject") =>
            /\ t.pc = "e_counted"
            /\ DOMAIN t.opts # {}]_vars

\* C37: a ScheduledCall is completed only if a firing of it succeeded: some
\* CallLog references it whose provider identifier is set (calls.create
\* succeeded); this covers a call created with triggerImmediately
C37_CompletedHasSuccessfulCallLog ==
  \A id \in DOMAIN scheduledCall :
    scheduledCall[id].status = "completed" =>
      \E l \in 1..Len(callLog) :
        /\ callLog[l].scheduledCallId = id
        /\ callLog[l].twilioCallSid # Null

\* C38: recovery leaves no ScheduledCall stuck: a call that the store shows
\* in_progress while the process is down (it died during a firing) leaves
\* in_progress once the process has been started again
C38_InProgressLeavesAfterRestart ==
  \A id \in Ids :
    (crashed /\ id \in DOMAIN scheduledCall /\ scheduledCall[id].status = "in_progress")
      ~> (id \notin DOMAIN scheduledCall \/ scheduledCall[id].status # "in_progress")

\* C39: a paused ScheduledCall stays paused until resume: the status of a
\* paused call is changed only by a request for it (the resume route's
\* update, a manual trigger), never by the scheduler; the end of a firing
\* that was in flight when pause was called does not change it
C39_PausedUntilResume ==
  [][\A id \in DOMAIN scheduledCall \cap DOMAIN scheduledCall' :
       (scheduledCall[id].status = "paused" /\ scheduledCall'[id].status # "paused") =>
         \/ \E t \in tasks' : ResumeStarts(t) /\ t.call.id = id
         \/ \E t \in tasks : t \notin tasks' /\ t.op \in {"resume", "trigger"} /\ t.call.id = id]_vars

\* C40: a ScheduledCall marked failed by a firing never fires again on its
\* own: with no request made, a call whose status is failed has no armed
\* handle in the registry and no CallLog is created for it
C40_FailedNeverFiresAgain ==
  [][\A id \in DOMAIN scheduledCall :
       scheduledCall[id].status = "failed" =>
         /\ ArmedFor(handles', id) = {}
         /\ \A l \in (Len(callLog) + 1)..Len(callLog') : callLog'[l].scheduledCallId # id]_vars

====
